---- MODULE Spec2Model ----
(***************************************************************************)
(* Model of the GitHub webhook dispatcher, src/webhook/app.py:             *)
(* lambda_handler and the helpers it calls (_get_raw_body, _get_header,    *)
(* _verify_github_signature, _parse_payload,                               *)
(* _changed_files_from_push_payload, _determine_pipelines_to_trigger,      *)
(* _trigger_pipeline).                                                     *)
(*                                                                         *)
(* Spec      one invocation of lambda_handler, statement by statement.     *)
(* UnitSpec  the pure helpers applied directly to inputs drawn from        *)
(*           bounded sets.                                                 *)
(***************************************************************************)
EXTENDS Integers, Sequences, FiniteSets, TLC

VARIABLES
    env,                  \* os.environ["GITHUB_WEBHOOK_SECRET"], or Unset
    headers,              \* event["headers"]: header name -> header value
    body,                 \* event["body"]
    isBase64Encoded,      \* event["isBase64Encoded"]
    pc,                   \* position in lambda_handler (or in the unit harness)
    raw_body,             \* local raw_body
    secret,               \* local secret
    verified,             \* result of the last _verify_github_signature call
    payload,              \* local payload
    event_type,           \* local event_type
    repo,                 \* local repo
    changed_files,        \* local changed_files
    pipelines_to_trigger, \* local pipelines_to_trigger
    triggered_results,    \* local triggered_results
    response,             \* the value lambda_handler returns
    raised,               \* the exception that left the function, or NoException
    parse_calls,          \* number of _parse_payload invocations so far
    start_calls           \* names passed to codepipeline.start_pipeline_execution, in order

vars == <<env, headers, body, isBase64Encoded, pc, raw_body, secret, verified,
          payload, event_type, repo, changed_files, pipelines_to_trigger,
          triggered_results, response, raised, parse_calls, start_calls>>

(***************************************************************************)
(* Bounds.                                                                 *)
(***************************************************************************)
\* longest commits[] list of a push payload
MaxCommits == 2

(***************************************************************************)
(* Python str values that the code inspects character by character (file   *)
(* paths) are sequences of one-character strings; CodePoint is the Unicode *)
(* code point that str comparison (and so sorted()) orders by.             *)
(***************************************************************************)
CodePoint ==
    ("-" :> 45) @@ ("." :> 46) @@ ("/" :> 47) @@ ("1" :> 49) @@ ("2" :> 50) @@
    ("A" :> 65) @@ ("D" :> 68) @@ ("E" :> 69) @@ ("M" :> 77) @@ ("R" :> 82) @@
    ("a" :> 97) @@ ("b" :> 98) @@ ("c" :> 99) @@ ("d" :> 100) @@ ("e" :> 101) @@
    ("h" :> 104) @@ ("i" :> 105) @@ ("l" :> 108) @@ ("m" :> 109) @@
    ("n" :> 110) @@ ("o" :> 111) @@ ("p" :> 112) @@ ("r" :> 114) @@
    ("s" :> 115) @@ ("t" :> 116) @@ ("u" :> 117) @@ ("y" :> 121)

\* a < b for two str values
StrLess(a, b) ==
    \E i \in 1..Len(b) :
        /\ i - 1 <= Len(a)
        /\ \A j \in 1..(i - 1) : a[j] = b[j]
        /\ \/ i = Len(a) + 1
           \/ i <= Len(a) /\ CodePoint[a[i]] < CodePoint[b[i]]

\* sub in s
Contains(s, sub) ==
    \E i \in 1..(Len(s) - Len(sub) + 1) : SubSeq(s, i, i + Len(sub) - 1) = sub

\* s.startswith(prefix)
StartsWith(s, prefix) ==
    Len(s) >= Len(prefix) /\ SubSeq(s, 1, Len(prefix)) = prefix

\* sorted(S) for a set S of str
RECURSIVE sorted(_)
sorted(S) ==
    IF S = {} THEN <<>>
    ELSE LET m == CHOOSE x \in S : \A y \in S \ {x} : StrLess(x, y)
         IN  <<m>> \o sorted(S \ {m})

Range(s) == {s[i] : i \in DOMAIN s}

\* every ordering of a finite set, as sequences without repetition
Orderings(S) ==
    {s \in [1..Cardinality(S) -> S] : \A i, j \in DOMAIN s : s[i] = s[j] => i = j}

(***************************************************************************)
(* The literals of the routing rule.                                       *)
(***************************************************************************)
Lambda1Name == <<"l", "a", "m", "b", "d", "a", "1">>
Lambda2Name == <<"l", "a", "m", "b", "d", "a", "2">>
Lambda1Dir == Lambda1Name \o <<"/">>                   \* 'lambda1/'
Lambda2Dir == Lambda2Name \o <<"/">>                   \* 'lambda2/'
SharedDir == <<"l", "a", "y", "e", "r", "s", "/", "s", "h", "a", "r", "e", "d", "/">>  \* 'layers/shared/'

\* file paths used as inputs
AppPy    == <<"a", "p", "p", ".", "p", "y">>
PathL1   == Lambda1Dir \o AppPy                        \* lambda1/app.py
PathL2   == Lambda2Dir \o AppPy                        \* lambda2/app.py
PathSh   == SharedDir \o <<"p", "y", "t", "h", "o", "n", "/", "u", "t", "i", "l", "s", ".", "p", "y">>
                                                       \* layers/shared/python/utils.py
PathDoc1 == <<"d", "o", "c", "s", "/">> \o Lambda1Dir \o <<"n", "o", "t", "e", "s", ".", "m", "d">>
                                                       \* docs/lambda1/notes.md
PathOld2 == <<"o", "l", "d", "-">> \o Lambda2Dir \o AppPy  \* old-lambda2/app.py
PathRead == <<"R", "E", "A", "D", "M", "E", ".", "m", "d">> \* README.md
Paths == {PathL1, PathL2, PathSh, PathDoc1, PathOld2, PathRead}

(***************************************************************************)
(* JSON values.  A dict is a record whose fields hold Absent for a key     *)
(* that is not present.                                                    *)
(***************************************************************************)
Absent == [kind |-> "absent"]
Null   == [kind |-> "null"]
List(items) == [kind |-> "list", items |-> items]
JsonStr(s) == [kind |-> "string", s |-> s]
JsonString == JsonStr("text")
JsonNumber == [kind |-> "number"]
Commit(a, m, r) == [kind |-> "object", added |-> a, modified |-> m, removed |-> r]
Repository == [kind |-> "object", full_name |-> JsonStr("RohanKhanal14/lambda_monorepo")]
Push(r, c) == [kind |-> "object", repository |-> r, commits |-> c]

\* d.get(key, default)
DictGet(d, key, default) == IF d[key] = Absent THEN default ELSE d[key]

\* v or []   (None and the empty list are falsy)
OrEmptyList(v) == IF v = Null \/ v = List(<<>>) THEN List(<<>>) ELSE v

Returned(v) == [raised |-> FALSE, value |-> v]
Raises(exc) == [raised |-> TRUE, exc |-> exc]
NoException == "none"

(***************************************************************************)
(* Text and bytes.  The request body and the form field are texts; what    *)
(* the code does with a text depends only on which of these it is.         *)
(***************************************************************************)
EmptyText == [kind |-> "empty"]                    \* ""
GarbageText == [kind |-> "garbage"]                \* "abc": no JSON, no payload field, bad base64 padding
JsonText(v) == [kind |-> "json", value |-> v]      \* json.dumps(v)
FormText(p) == [kind |-> "form", payload |-> p]    \* a query string; p is the payload field's value or Absent
Base64Text(b) == [kind |-> "base64", of |-> b]     \* base64.b64encode(b)

\* text.encode("utf-8")
Encode(t) == [kind |-> "bytes", text |-> t]
\* raw.decode("utf-8", errors="replace")
Decode(b) == b.text

\* base64.b64decode(text)
B64Decode(t) ==
    CASE t.kind = "base64" -> Returned(t.of)
      [] t = EmptyText     -> Returned(Encode(EmptyText))
      [] OTHER             -> Raises("binascii.Error")

\* json.loads(text)
JsonLoads(t) ==
    IF t.kind = "json" THEN Returned(t.value) ELSE Raises("JSONDecodeError")

\* parse_qs(text, keep_blank_values=True).get("payload"): Absent, or the first value
ParseQsPayload(t) == IF t.kind = "form" THEN t.payload ELSE Absent

(***************************************************************************)
(* Header values are strings split as prefix + rest.                       *)
(***************************************************************************)
None == [kind |-> "None"]
Lit(s) == [kind |-> "lit", s |-> s]
Value(prefix, rest) == [kind |-> "str", prefix |-> prefix, rest |-> rest]
Str(s) == Value("", Lit(s))
EmptyStr == Str("")
\* a header value holding a character outside ASCII after the prefix
NonAscii == [kind |-> "lit", s |-> "\\u00e9"]

\* bool(v) for None or a str
Truthy(v) == v # None /\ v # EmptyStr

\* hmac.new(key, msg, hashlib.sha256).hexdigest(), collision-free
HmacSha256Hex(key, msg) == [kind |-> "hexdigest", key |-> key, msg |-> msg]

\* name.lower() and name.upper() of the header names the code looks up
Lower(name) ==
    CASE name = "X-Hub-Signature-256" -> "x-hub-signature-256"
      [] name = "Content-Type"        -> "content-type"
      [] name = "X-GitHub-Event"      -> "x-github-event"
Upper(name) ==
    CASE name = "X-Hub-Signature-256" -> "X-HUB-SIGNATURE-256"
      [] name = "Content-Type"        -> "CONTENT-TYPE"
      [] name = "X-GitHub-Event"      -> "X-GITHUB-EVENT"

\* headers.get(name)
HeadersGet(h, name) == IF name \in DOMAIN h THEN h[name] ELSE None

\* a or b or c
Or3(a, b, c) == IF Truthy(a) THEN a ELSE IF Truthy(b) THEN b ELSE c

_get_header(h, name) ==
    Or3(HeadersGet(h, name), HeadersGet(h, Lower(name)), HeadersGet(h, Upper(name)))

\* hmac.compare_digest(a, b) on two str: TypeError unless both are ASCII
CompareDigest(a, b) ==
    IF a.rest = NonAscii \/ b.rest = NonAscii THEN Raises("TypeError")
    ELSE Returned(a = b)

_verify_github_signature(h, raw, key) ==
    LET sig256 == _get_header(h, "X-Hub-Signature-256")
    IN  IF ~Truthy(sig256) \/ sig256.prefix # "sha256=" THEN Returned(FALSE)
        ELSE CompareDigest(Value("sha256=", HmacSha256Hex(key, raw)), sig256)

\* (value or "").split(";")[0].strip().lower()
MediaType(v) ==
    LET s == IF Truthy(v) THEN v.rest.s ELSE ""
    IN  CASE s = "application/json" -> "application/json"
          [] s = "Application/JSON; charset=utf-8" -> "application/json"
          [] s = "application/x-www-form-urlencoded" -> "application/x-www-form-urlencoded"
          [] OTHER -> s

\* the form branch: the payload field, JSON-decoded
FormPayload(body_text, otherwise) ==
    LET field == ParseQsPayload(body_text)
    IN  IF field # Absent THEN JsonLoads(field) ELSE otherwise

_parse_payload(h, raw) ==
    LET content_type == MediaType(_get_header(h, "Content-Type"))
        body_text == Decode(raw)
    IN  CASE content_type = "application/json" -> JsonLoads(body_text)
          [] content_type = "application/x-www-form-urlencoded" ->
                FormPayload(body_text, Raises("ValueError"))
          [] OTHER ->
                IF ~JsonLoads(body_text).raised THEN JsonLoads(body_text)
                ELSE FormPayload(body_text, JsonLoads(body_text))

_get_raw_body(b, flag) ==
    LET text == IF b = Absent \/ b = Null \/ b = EmptyText THEN EmptyText ELSE b
    IN  IF flag THEN B64Decode(text) ELSE Returned(Encode(text))

(***************************************************************************)
(* Change extraction and routing.                                          *)
(***************************************************************************)
\* c.get(k, []) or [] for one commit c, as a set of paths
KindPaths(c, k) == Range(OrEmptyList(DictGet(c, k, List(<<>>))).items)

\* CommitPaths without the "removed" kind
CommitPathsNoRemoved(c) == KindPaths(c, "added") \cup KindPaths(c, "modified")

CommitPaths(c) ==
    KindPaths(c, "added") \cup KindPaths(c, "modified") \cup KindPaths(c, "removed")

_changed_files_from_push_payload(p) ==
    LET commits == OrEmptyList(DictGet(p, "commits", List(<<>>))).items
    IN  IF \E i \in DOMAIN commits : commits[i].kind # "object"
        THEN Raises("AttributeError")
        ELSE Returned(sorted(UNION {CommitPaths(commits[i]) : i \in DOMAIN commits}))

Lambda1Pipeline == Lambda1Name \o <<"-", "p", "i", "p", "e", "l", "i", "n", "e">>
Lambda2Pipeline == Lambda2Name \o <<"-", "p", "i", "p", "e", "l", "i", "n", "e">>

\* the set `pipelines` built by _determine_pipelines_to_trigger
PipelineSet(files) ==
    LET shared_changed == \E i \in DOMAIN files : Contains(files[i], SharedDir)
        lambda1_changed == \E i \in DOMAIN files : Contains(files[i], Lambda1Dir)
        lambda2_changed == \E i \in DOMAIN files : Contains(files[i], Lambda2Dir)
    IN  (IF shared_changed \/ lambda1_changed THEN {Lambda1Pipeline} ELSE {})
        \cup (IF shared_changed \/ lambda2_changed THEN {Lambda2Pipeline} ELSE {})

\* list(pipelines): a set of str iterates in the order of its hash table, and
\* str hashes are seeded per process, so any ordering can be the one returned.
\* The operator is the set of lists the call can return.
_determine_pipelines_to_trigger(files) == Orderings(PipelineSet(files))

\* what codepipeline.start_pipeline_execution can do: return an execution, or raise
StartOutcomes == {Returned([pipelineExecutionId |-> "execution-id"]), Raises("ClientError")}

_trigger_pipeline(pipeline_name, outcome) ==
    IF ~outcome.raised
    THEN [success |-> TRUE, pipeline |-> pipeline_name,
          executionId |-> outcome.value.pipelineExecutionId]
    ELSE [success |-> FALSE, pipeline |-> pipeline_name, error |-> outcome.exc]

(***************************************************************************)
(* Inputs.                                                                 *)
(***************************************************************************)
\* every sequence over S of length at most n
SeqsUpTo(S, n) == UNION {[1..k -> S] : k \in 0..n}

\* os.environ: the variable unset, set to "", or set to a secret
EnvUnset == [set |-> FALSE]
EnvSet(v) == [set |-> TRUE, value |-> v]
Envs == {EnvUnset, EnvSet(""), EnvSet("s3cret")}
\* os.environ.get(name, default)
EnvGet(e, default) == IF e.set THEN e.value ELSE default

\* commits of the requests given to lambda_handler
HandlerCommits ==
    { Commit(List(<<PathL2>>), Absent, Null),
      Commit(Absent, List(<<PathSh>>), Absent),
      Commit(List(<<PathRead>>), Null, List(<<PathDoc1>>)),
      JsonString }
HandlerCommitLists ==
    {Absent, Null} \cup {List(s) : s \in SeqsUpTo(HandlerCommits, MaxCommits)}
HandlerJson ==
    {List(<<>>), JsonString, JsonNumber}
    \cup {Push(r, c) : r \in {Absent, Repository}, c \in HandlerCommitLists}
    \cup {Push(Null, Absent)}
HandlerTexts ==
    {EmptyText, GarbageText, FormText(Absent), FormText(EmptyText)}
    \cup {JsonText(v) : v \in HandlerJson}
    \cup {FormText(JsonText(v)) : v \in HandlerJson}

\* (body, isBase64Encoded) pairs
HandlerBodies ==
    ({Absent} \cup HandlerTexts) \X {FALSE}
    \cup {Base64Text(Encode(JsonText(Push(Repository, Absent)))), GarbageText} \X {TRUE}

\* the bytes the sender signed: the raw body when there is one
SignedBytes(b, flag) ==
    IF _get_raw_body(b, flag).raised THEN Encode(GarbageText)
    ELSE _get_raw_body(b, flag).value

\* values of a signature header for a body
SignatureValues(raw) ==
    { Value("sha256=", HmacSha256Hex("s3cret", raw)),
      Value("sha256=", HmacSha256Hex("other", raw)),
      Value("sha256=", HmacSha256Hex("", raw)),
      Value("sha1=", HmacSha256Hex("s3cret", raw)),
      Value("sha256=", NonAscii),
      EmptyStr }

\* header dicts holding at most one signature header
NoHeaders == [n \in {} |-> None]
SignatureNames ==
    {"X-Hub-Signature-256", "x-hub-signature-256", "X-HUB-SIGNATURE-256", "X-hub-signature-256"}
SignatureHeaders(raw) ==
    {NoHeaders}
    \cup {"X-Hub-Signature-256" :> v : v \in SignatureValues(raw)}
    \cup {n :> Value("sha256=", HmacSha256Hex("s3cret", raw)) : n \in SignatureNames}
ContentTypeHeaders ==
    {NoHeaders} \cup {"content-type" :> Str(s) :
        s \in {"Application/JSON; charset=utf-8", "application/x-www-form-urlencoded"}}
EventHeaders ==
    {NoHeaders} \cup {"X-GitHub-Event" :> Str(s) : s \in {"ping", "push", "issues"}}
HandlerHeaders(raw) ==
    {s @@ c @@ e : s \in SignatureHeaders(raw), c \in ContentTypeHeaders, e \in EventHeaders}

Unbound == "<unbound>"

LocalsInit ==
    /\ raw_body = None
    /\ secret = Unbound
    /\ verified = FALSE
    /\ payload = None
    /\ event_type = Unbound
    /\ repo = None
    /\ changed_files = <<>>
    /\ pipelines_to_trigger = <<>>
    /\ triggered_results = <<>>
    /\ response = None
    /\ raised = NoException
    /\ parse_calls = 0
    /\ start_calls = <<>>

Init ==
    /\ env \in Envs
    /\ \E b \in HandlerBodies :
          /\ body = b[1]
          /\ isBase64Encoded = b[2]
          /\ headers \in HandlerHeaders(SignedBytes(b[1], b[2]))
    /\ pc = "start"
    /\ LocalsInit

(***************************************************************************)
(* lambda_handler, one action per statement group.                         *)
(***************************************************************************)
Return(status, b) ==
    /\ response' = [statusCode |-> status, body |-> b]
    /\ pc' = "done"
    /\ raised' = raised

Raise(exc) ==
    /\ raised' = exc
    /\ pc' = "raised"
    /\ response' = response

\* lines 118-119
GetRawBody ==
    /\ pc = "start"
    /\ LET r == _get_raw_body(body, isBase64Encoded)
       IN  IF r.raised
           THEN Raise(r.exc) /\ raw_body' = raw_body
           ELSE /\ raw_body' = r.value
                /\ pc' = "check_secret"
                /\ UNCHANGED <<response, raised>>
    /\ UNCHANGED <<env, headers, body, isBase64Encoded, secret, verified, payload,
                   event_type, repo, changed_files, pipelines_to_trigger,
                   triggered_results, parse_calls, start_calls>>

\* lines 127-130
CheckSecret ==
    /\ pc = "check_secret"
    /\ secret' = EnvGet(env, "")
    /\ IF secret' = ""
       THEN Return(500, [error |-> "Server misconfigured"])
       ELSE pc' = "verify" /\ UNCHANGED <<response, raised>>
    /\ UNCHANGED <<env, headers, body, isBase64Encoded, raw_body, verified, payload,
                   event_type, repo, changed_files, pipelines_to_trigger,
                   triggered_results, parse_calls, start_calls>>

\* lines 132-134
VerifySignature ==
    /\ pc = "verify"
    /\ LET r == _verify_github_signature(headers, raw_body, secret)
       IN  IF r.raised
           THEN Raise(r.exc) /\ verified' = verified
           ELSE /\ verified' = r.value
                /\ IF r.value
                   THEN pc' = "parse" /\ UNCHANGED <<response, raised>>
                   ELSE Return(401, [error |-> "Invalid signature"])
    /\ UNCHANGED <<env, headers, body, isBase64Encoded, raw_body, secret, payload,
                   event_type, repo, changed_files, pipelines_to_trigger,
                   triggered_results, parse_calls, start_calls>>

\* lines 137-141
ParsePayload ==
    /\ pc = "parse"
    /\ parse_calls' = parse_calls + 1
    /\ LET r == _parse_payload(headers, raw_body)
       IN  IF r.raised
           THEN Return(400, [error |-> "Invalid payload"]) /\ payload' = payload
           ELSE /\ payload' = r.value
                /\ pc' = "classify"
                /\ UNCHANGED <<response, raised>>
    /\ UNCHANGED <<env, headers, body, isBase64Encoded, raw_body, secret, verified,
                   event_type, repo, changed_files, pipelines_to_trigger,
                   triggered_results, start_calls>>

\* EventBranch without the return for event types other than push
EventBranchNoIgnore(t) == IF t = "ping" THEN "pong" ELSE "push"

\* lines 148-154: which return, if any, the event type takes
EventBranch(t) ==
    IF t = "ping" THEN "pong" ELSE IF t # "push" THEN "ignored" ELSE "push"

\* lines 143-154
ClassifyEvent ==
    /\ pc = "classify"
    /\ LET v == _get_header(headers, "X-GitHub-Event")
       IN  event_type' = IF Truthy(v) THEN v.rest.s ELSE "unknown"
    /\ CASE EventBranch(event_type') = "pong" -> Return(200, [message |-> <<"pong">>])
         [] EventBranch(event_type') = "ignored" ->
                Return(200, [message |-> <<"event ", event_type', " received">>])
         [] OTHER -> pc' = "extract" /\ UNCHANGED <<response, raised>>
    /\ UNCHANGED <<env, headers, body, isBase64Encoded, raw_body, secret, verified,
                   payload, repo, changed_files, pipelines_to_trigger,
                   triggered_results, parse_calls, start_calls>>

\* line 157: payload.get("repository", {}).get("full_name")
RepoFullName(p) ==
    IF p.kind # "object" THEN Raises("AttributeError")
    ELSE LET repository == DictGet(p, "repository", [kind |-> "object", full_name |-> Absent])
         IN  IF repository.kind # "object" THEN Raises("AttributeError")
             ELSE Returned(IF repository.full_name = Absent THEN None
                           ELSE repository.full_name)

\* lines 157-166 (before, after and ref are read with payload.get and only
\* echoed; they are left out)
ExtractPush ==
    /\ pc = "extract"
    /\ LET r == RepoFullName(payload)
           c == _changed_files_from_push_payload(payload)
       IN  IF r.raised THEN Raise(r.exc) /\ UNCHANGED <<repo, changed_files>>
           ELSE IF c.raised THEN Raise(c.exc) /\ repo' = r.value /\ changed_files' = changed_files
           ELSE /\ repo' = r.value
                /\ changed_files' = c.value
                /\ pc' = "route"
                /\ UNCHANGED <<response, raised>>
    /\ UNCHANGED <<env, headers, body, isBase64Encoded, raw_body, secret, verified,
                   payload, event_type, pipelines_to_trigger, triggered_results,
                   parse_calls, start_calls>>

\* lines 169-173
DeterminePipelines ==
    /\ pc = "route"
    /\ pipelines_to_trigger' \in _determine_pipelines_to_trigger(changed_files)
    /\ triggered_results' = <<>>
    /\ pc' = "trigger"
    /\ UNCHANGED <<env, headers, body, isBase64Encoded, raw_body, secret, verified,
                   payload, event_type, repo, changed_files, response, raised,
                   parse_calls, start_calls>>

\* lines 174-176, one iteration of the loop
TriggerPipeline ==
    /\ pc = "trigger"
    /\ Len(triggered_results) < Len(pipelines_to_trigger)
    /\ LET pipeline_name == pipelines_to_trigger[Len(triggered_results) + 1]
       IN  /\ start_calls' = Append(start_calls, pipeline_name)
           /\ \E outcome \in StartOutcomes :
                 triggered_results' =
                     Append(triggered_results, _trigger_pipeline(pipeline_name, outcome))
    /\ UNCHANGED <<env, headers, body, isBase64Encoded, pc, raw_body, secret, verified,
                   payload, event_type, repo, changed_files, pipelines_to_trigger,
                   response, raised, parse_calls>>

\* changed_files[:50]
SampleSize == 50
Sample(files) == SubSeq(files, 1, IF Len(files) < SampleSize THEN Len(files) ELSE SampleSize)

\* lines 179-194
Respond ==
    /\ pc = "trigger"
    /\ Len(triggered_results) = Len(pipelines_to_trigger)
    /\ Return(200, [repo |-> repo,
                    changed_files_count |-> Len(changed_files),
                    changed_files |-> Sample(changed_files),
                    pipelines_triggered |-> pipelines_to_trigger,
                    trigger_results |-> triggered_results])
    /\ UNCHANGED <<env, headers, body, isBase64Encoded, raw_body, secret, verified,
                   payload, event_type, repo, changed_files, pipelines_to_trigger,
                   triggered_results, parse_calls, start_calls>>

Next ==
    \/ GetRawBody
    \/ CheckSecret
    \/ VerifySignature
    \/ ParsePayload
    \/ ClassifyEvent
    \/ ExtractPush
    \/ DeterminePipelines
    \/ TriggerPipeline
    \/ Respond

Spec == Init /\ [][Next]_vars

(***************************************************************************)
(* UnitSpec: _verify_github_signature, _changed_files_from_push_payload    *)
(* and _determine_pipelines_to_trigger called directly.                    *)
(***************************************************************************)
UnitRawBodies == {Encode(EmptyText), Encode(GarbageText), Encode(JsonText(JsonNumber))}
UnitSecrets == {"", "s3cret", "other"}
UnitHeaders == UNION {SignatureHeaders(raw) : raw \in UnitRawBodies}

\* commit records: each kind-list absent, null, or a list of paths
AddedLists == {Absent, List(<<PathL2, PathL1>>), List(<<PathRead>>)}
ModifiedLists == {Null, List(<<PathL1>>), List(<<PathSh, PathSh>>)}
RemovedLists == {Absent, List(<<>>), List(<<PathDoc1, PathL2>>)}
UnitCommits ==
    {Commit(a, m, r) : a \in AddedLists, m \in ModifiedLists, r \in RemovedLists}
UnitPayloads ==
    {Push(Repository, c) :
        c \in {Absent, Null} \cup {List(s) : s \in SeqsUpTo(UnitCommits, MaxCommits)}}

\* changed-file lists as _changed_files_from_push_payload returns them
UnitChangedFiles == {sorted(S) : S \in SUBSET Paths}

UnitIdle ==
    /\ env = EnvUnset
    /\ body = Absent
    /\ isBase64Encoded = FALSE
    /\ event_type = Unbound
    /\ repo = None
    /\ pipelines_to_trigger = <<>>
    /\ triggered_results = <<>>
    /\ response = None
    /\ raised = NoException
    /\ parse_calls = 0
    /\ start_calls = <<>>
    /\ verified = FALSE

UnitInit ==
    /\ UnitIdle
    /\ \/ /\ pc = "unit_verify"
          /\ headers \in UnitHeaders
          /\ raw_body \in UnitRawBodies
          /\ secret \in UnitSecrets
          /\ payload = None
          /\ changed_files = <<>>
       \/ /\ pc = "unit_extract"
          /\ payload \in UnitPayloads
          /\ headers = NoHeaders
          /\ raw_body = None
          /\ secret = Unbound
          /\ changed_files = <<>>
       \/ /\ pc = "unit_route"
          /\ changed_files \in UnitChangedFiles
          /\ headers = NoHeaders
          /\ raw_body = None
          /\ secret = Unbound
          /\ payload = None

UnitVerify ==
    /\ pc = "unit_verify"
    /\ pc' = "unit_verify_done"
    /\ LET r == _verify_github_signature(headers, raw_body, secret)
       IN  IF r.raised THEN raised' = r.exc /\ verified' = verified
           ELSE verified' = r.value /\ raised' = raised
    /\ UNCHANGED <<env, headers, body, isBase64Encoded, raw_body, secret, payload,
                   event_type, repo, changed_files, pipelines_to_trigger,
                   triggered_results, response, parse_calls, start_calls>>

UnitExtract ==
    /\ pc = "unit_extract"
    /\ pc' = "unit_extract_done"
    /\ LET r == _changed_files_from_push_payload(payload)
       IN  IF r.raised THEN raised' = r.exc /\ changed_files' = changed_files
           ELSE changed_files' = r.value /\ raised' = raised
    /\ UNCHANGED <<env, headers, body, isBase64Encoded, raw_body, secret, verified,
                   payload, event_type, repo, pipelines_to_trigger,
                   triggered_results, response, parse_calls, start_calls>>

UnitRoute ==
    /\ pc = "unit_route"
    /\ pc' = "unit_route_done"
    /\ pipelines_to_trigger' \in _determine_pipelines_to_trigger(changed_files)
    /\ UNCHANGED <<env, headers, body, isBase64Encoded, raw_body, secret, verified,
                   payload, event_type, repo, changed_files, triggered_results,
                   response, raised, parse_calls, start_calls>>

UnitNext == UnitVerify \/ UnitExtract \/ UnitRoute

UnitSpec == UnitInit /\ [][UnitNext]_vars

(***************************************************************************)
(* What the properties speak about, stated on the request itself.          *)
(***************************************************************************)
Terminated == pc \in {"done", "raised"}

\* the configured secret
ConfiguredSecret == EnvGet(env, "")

\* the signature header of the request under any casing of its name, or None
RequestSignature ==
    IF DOMAIN headers \cap SignatureNames = {} THEN None
    ELSE headers[CHOOSE n \in DOMAIN headers \cap SignatureNames : TRUE]

\* the request carries the digest of its raw body under the configured secret
RequestSignatureValid ==
    /\ ~_get_raw_body(body, isBase64Encoded).raised
    /\ RequestSignature =
          Value("sha256=", HmacSha256Hex(ConfiguredSecret,
                                          _get_raw_body(body, isBase64Encoded).value))

\* the event type the request names
RequestEventType ==
    IF "X-GitHub-Event" \in DOMAIN headers THEN headers["X-GitHub-Event"].rest.s
    ELSE "unknown"

NoRoutingWork ==
    changed_files = <<>> /\ pipelines_to_trigger = <<>> /\ start_calls = <<>>

\* s is strictly increasing in str order
StrictlySorted(s) == \A i \in 1..(Len(s) - 1) : StrLess(s[i], s[i + 1])

(***************************************************************************)
(* C1.  A request with a non-empty configured secret whose signature is    *)
(* missing or invalid never leaves lambda_handler by an exception, gets    *)
(* status 401, and causes no _parse_payload call and no                    *)
(* start_pipeline_execution call.                                          *)
(***************************************************************************)
C1_BadSignatureRejected ==
    (ConfiguredSecret # "" /\ ~RequestSignatureValid) =>
        /\ parse_calls = 0
        /\ start_calls = <<>>
        /\ pc # "raised"
        /\ pc = "done" => response.statusCode = 401

\* the request passes authentication, and its body decodes
C2_Authentic ==
    /\ ~_get_raw_body(body, isBase64Encoded).raised
    /\ _verify_github_signature(headers, _get_raw_body(body, isBase64Encoded).value,
                                ConfiguredSecret) = Returned(TRUE)

C2_Decodable ==
    ~_parse_payload(headers, _get_raw_body(body, isBase64Encoded).value).raised

(***************************************************************************)
(* C2.  The short-circuit errors are decided in the order configuration,   *)
(* authentication, decode: no secret gives 500 whatever the signature and  *)
(* body are; otherwise a failed signature gives 401 whatever the body is;  *)
(* otherwise a body _parse_payload rejects gives 400 whatever the event    *)
(* type is; and none of the three extracts, routes or triggers.            *)
(***************************************************************************)
C2_ShortCircuitOrder ==
    Terminated =>
        /\ ConfiguredSecret = "" =>
              pc = "done" /\ response.statusCode = 500 /\ NoRoutingWork
        /\ (ConfiguredSecret # "" /\ ~C2_Authentic) =>
              pc = "done" /\ response.statusCode = 401 /\ NoRoutingWork
        /\ (ConfiguredSecret # "" /\ C2_Authentic /\ ~C2_Decodable) =>
              pc = "done" /\ response.statusCode = 400 /\ NoRoutingWork

(***************************************************************************)
(* C3.  Every authenticated, decoded push event ends with status 200,      *)
(* start_pipeline_execution called exactly once per selected pipeline in   *)
(* selection order, and trigger_results holding one outcome per pipeline   *)
(* in the order of pipelines_triggered, a failure recorded as              *)
(* success=false with an error string.                                     *)
(***************************************************************************)
C3_OneOutcomePerPipeline ==
    (Terminated /\ event_type = "push") =>
        /\ pc = "done"
        /\ response.statusCode = 200
        /\ start_calls = pipelines_to_trigger
        /\ response.body.pipelines_triggered = pipelines_to_trigger
        /\ Len(response.body.trigger_results) = Len(pipelines_to_trigger)
        /\ \A i \in DOMAIN pipelines_to_trigger :
              LET o == response.body.trigger_results[i]
              IN  /\ o.pipeline = pipelines_to_trigger[i]
                  /\ ~o.success => "error" \in DOMAIN o

\* some changed path starts with the prefix
C4_SomeStartsWith(prefix) ==
    \E i \in DOMAIN changed_files : StartsWith(changed_files[i], prefix)

(***************************************************************************)
(* C4.  _determine_pipelines_to_trigger selects lambda1-pipeline iff some  *)
(* changed path starts with 'lambda1/' or with 'layers/shared/', and       *)
(* lambda2-pipeline iff some changed path starts with 'lambda2/' or with   *)
(* 'layers/shared/'; a path holding one of the strings elsewhere selects   *)
(* nothing.                                                                *)
(***************************************************************************)
C4_PrefixRouting ==
    pc = "unit_route_done" =>
        /\ Lambda1Pipeline \in Range(pipelines_to_trigger)
              <=> (C4_SomeStartsWith(Lambda1Dir) \/ C4_SomeStartsWith(SharedDir))
        /\ Lambda2Pipeline \in Range(pipelines_to_trigger)
              <=> (C4_SomeStartsWith(Lambda2Dir) \/ C4_SomeStartsWith(SharedDir))

(***************************************************************************)
(* C5.  No invocation of lambda_handler ends with an unhandled exception:  *)
(* every one ends by returning a response with a status code.              *)
(***************************************************************************)
C5_AlwaysResponds ==
    /\ raised = NoException
    /\ pc = "done" => response.statusCode \in {200, 400, 401, 500}

(***************************************************************************)
(* C6.  Whatever the casing of the header name X-Hub-Signature-256, a      *)
(* request carrying the correct sha256= digest under it is verified true   *)
(* by _verify_github_signature.                                            *)
(***************************************************************************)
C6_AnyCasingVerifies ==
    (/\ pc = "unit_verify_done"
     /\ \E n \in SignatureNames \cap DOMAIN headers :
           headers[n] = Value("sha256=", HmacSha256Hex(secret, raw_body)))
        => (raised = NoException /\ verified = TRUE)

\* the two acknowledgement responses
C7_PingResponse == [statusCode |-> 200, body |-> [message |-> <<"pong">>]]
C7_IgnoredResponse(t) ==
    [statusCode |-> 200, body |-> [message |-> <<"event ", t, " received">>]]

C8_SelectionSorted ==
    (pc = "done" /\ "pipelines_triggered" \in DOMAIN response.body) =>
        StrictlySorted(response.body.pipelines_triggered)

\* the commit records of the payload
C9_Commits ==
    IF payload.commits.kind = "list" THEN payload.commits.items ELSE <<>>

\* the paths the payload lists, read off the payload without the code's helpers
C9_Listed ==
    {p \in Paths :
        \E i \in DOMAIN C9_Commits : \E k \in {"added", "modified", "removed"} :
            /\ C9_Commits[i][k].kind = "list"
            /\ \E j \in DOMAIN C9_Commits[i][k].items : C9_Commits[i][k].items[j] = p}

C9_Permuted ==
    {[i \in DOMAIN C9_Commits |-> C9_Commits[f[i]]] :
        f \in Orderings(DOMAIN C9_Commits)}

(***************************************************************************)
(* C9.  _changed_files_from_push_payload returns the strictly increasing   *)
(* (so duplicate-free) sequence of exactly the paths listed under added,   *)
(* modified or removed in some commit; every permutation of the commit     *)
(* list gives the same result; an absent or null commit list or kind-list  *)
(* counts as empty.                                                        *)
(***************************************************************************)
C9_ExtractSortedDistinct ==
    pc = "unit_extract_done" =>
        /\ raised = NoException
        /\ StrictlySorted(changed_files)
        /\ Range(changed_files) = C9_Listed
        /\ \A cs \in C9_Permuted :
              _changed_files_from_push_payload(Push(payload.repository, List(cs)))
                  = Returned(changed_files)

\* C9, reached: two commits sharing a path, out of order in the input, beside a
\* null and an absent kind-list
C9_Witness ==
    /\ pc = "unit_extract_done"
    /\ Len(C9_Commits) = 2
    /\ C9_Commits[1] = Commit(List(<<PathL2, PathL1>>), Null, Absent)
    /\ C9_Commits[2] = Commit(List(<<PathRead>>), List(<<PathL1>>), List(<<PathDoc1, PathL2>>))
    /\ changed_files = <<PathRead, PathDoc1, PathL1, PathL2>>

(***************************************************************************)
(* C10.  _verify_github_signature returns false and does not raise when    *)
(* the signature header is missing, when its value does not start with     *)
(* 'sha256=', and when the secret passed in is the empty string.           *)
(***************************************************************************)
C10_VerifyRejects ==
    (/\ pc = "unit_verify_done"
     /\ \/ RequestSignature = None
        \/ RequestSignature.prefix # "sha256="
        \/ secret = "")
        => (raised = NoException /\ verified = FALSE)

====
